---- MODULE Spec2Model ----
(***************************************************************************)
(* A model of main.py, the GW2 build manager: the build-link codec         *)
(* (decode_build_link, encode_build_link), the build store (save_build,    *)
(* load_build) and the interactive build creation (create_new_build_cli).  *)
(*                                                                         *)
(* Text is a sequence of characters, one string each ("U+00E9" is the      *)
(* one character of the model outside ASCII), bytes are a sequence of      *)
(* integers 0..255, Python's None is the record None.                      *)
(***************************************************************************)
EXTENDS Integers, Sequences, FiniteSets, TLC

VARIABLES
    \* ---- the codec: one call of decode_build_link and what feeds it
    origin,          \* where link_string comes from: "typed", "envelope", "build"
    typed_text,      \* the text the user types at menu choice 3
    raw_bytes,       \* a byte sequence given to the encoder's envelope step
    build_data,      \* the build given to encode_build_link
    link_string,     \* decode_build_link's argument
    dpc,             \* position in decode_build_link
    base64_part,     \* link_string[2:-1]
    decoded_bytes,   \* base64.b64decode(base64_part)
    decoded_info,    \* decode_build_link's return value
    outcome,         \* which exit decode_build_link took
    attempted,       \* the steps decode_build_link has attempted so far
    \* ---- the build store: the files under BUILDS_DIR and around it
    files,           \* file |-> its content, for the files that exist
    spc,             \* the last store operation: "none", "saved", "loaded"
    load_name,       \* load_build's argument
    load_result,     \* load_build's return value
    ever_saved,      \* history: the names save_build was called with
    last_ok,         \* history: name |-> the data of the last save_build under
                     \* that name when it completed without an I/O error
    \* ---- create_new_build_cli
    cpc,             \* position in create_new_build_cli
    build,           \* the build dict
    chosen_profession_name,
    i,               \* the specialization loop's index
    available_specs,
    chosen_spec,
    all_traits,
    selected_major_traits, \* [bound |-> FALSE] while the name is unbound
    k,               \* the trait loop's index
    picked,          \* history: the traits selected for the current chosen_spec
    last_append,     \* history: the traits of the last appended entry, and picked then
    skipped,         \* history: the specialization loop was left by a break
    save_arg,        \* history: the build handed to save_build
    encode_arg,      \* history: the build handed to encode_build_link
    encoded_link     \* encode_build_link's return value in create_new_build_cli

codec_vars == <<origin, typed_text, raw_bytes, build_data, link_string, dpc,
                base64_part, decoded_bytes, decoded_info, outcome, attempted>>

store_vars == <<files, spc, load_name, load_result, ever_saved, last_ok>>

cli_vars == <<cpc, build, chosen_profession_name, i, available_specs, chosen_spec,
              all_traits, selected_major_traits, k, picked, last_append, skipped,
              save_arg, encode_arg, encoded_link>>

vars == <<codec_vars, store_vars, cli_vars>>

None == [none |-> TRUE]

(***************************************************************************)
(* Bounds of the model.                                                    *)
(***************************************************************************)
MaxBytes == 4        \* longest byte sequence drawn freely
MaxTextLen == 4      \* longest free text typed as a link
MaxPayloadLen == 5   \* longest free payload typed between "[&" and "]"

ByteVals == {0, 10, 13, 255}
TextChars == {"[", "&", "]", "A", "=", "*"}
PayloadChars == {"C", "g", "=", "*", "U+00E9"}

RECURSIVE SeqsUpTo(_, _)
SeqsUpTo(S, n) ==
    IF n = 0 THEN {<<>>}
    ELSE LET shorter == SeqsUpTo(S, n - 1)
         IN  shorter \cup {Append(s, x) : s \in {t \in shorter : Len(t) = n - 1}, x \in S}

(***************************************************************************)
(* base64 (the standard library's base64.b64encode / base64.b64decode, as  *)
(* main.py calls them: standard alphabet, validate=False).                 *)
(***************************************************************************)
B64Alphabet ==
    << "A","B","C","D","E","F","G","H","I","J","K","L","M","N","O","P",
       "Q","R","S","T","U","V","W","X","Y","Z","a","b","c","d","e","f",
       "g","h","i","j","k","l","m","n","o","p","q","r","s","t","u","v",
       "w","x","y","z","0","1","2","3","4","5","6","7","8","9","+","/" >>

B64Chars == {B64Alphabet[n] : n \in 1..64}

B64Char(v) == B64Alphabet[v + 1]

B64Index(c) == CHOOSE v \in 0..63 : B64Alphabet[v + 1] = c

\* Characters of the model that are not ASCII.
NonAscii == {"U+00E9"}

RECURSIVE b64encode(_)
b64encode(b) ==
    IF Len(b) = 0 THEN <<>>
    ELSE IF Len(b) = 1 THEN
        << B64Char(b[1] \div 4), B64Char((b[1] % 4) * 16), "=", "=" >>
    ELSE IF Len(b) = 2 THEN
        << B64Char(b[1] \div 4), B64Char((b[1] % 4) * 16 + (b[2] \div 16)),
           B64Char((b[2] % 16) * 4), "=" >>
    ELSE
        << B64Char(b[1] \div 4), B64Char((b[1] % 4) * 16 + (b[2] \div 16)),
           B64Char((b[2] % 16) * 4 + (b[3] \div 64)), B64Char(b[3] % 64) >>
        \o b64encode(SubSeq(b, 4, Len(b)))

\* binascii.a2b_base64 in its non-strict mode (CPython 3.11): characters outside the
\* alphabet are skipped, a complete pad sequence ends the input, and a
\* quad left open at the end of the input is an error.
RECURSIVE a2b_base64(_, _, _, _, _, _)
a2b_base64(s, pos, quad_pos, leftchar, pads, out) ==
    IF pos > Len(s) THEN
        IF quad_pos # 0 THEN [exc |-> "binascii.Error", bytes |-> <<>>]
        ELSE [exc |-> "none", bytes |-> out]
    ELSE IF s[pos] = "=" THEN
        IF quad_pos >= 2 /\ quad_pos + pads + 1 >= 4
        THEN [exc |-> "none", bytes |-> out]
        ELSE a2b_base64(s, pos + 1, quad_pos, leftchar,
                        IF quad_pos >= 2 THEN pads + 1 ELSE pads, out)
    ELSE IF s[pos] \notin B64Chars THEN
        a2b_base64(s, pos + 1, quad_pos, leftchar, pads, out)
    ELSE
        LET v == B64Index(s[pos]) IN
        CASE quad_pos = 0 -> a2b_base64(s, pos + 1, 1, v, 0, out)
          [] quad_pos = 1 -> a2b_base64(s, pos + 1, 2, v % 16, 0,
                                        Append(out, leftchar * 4 + (v \div 16)))
          [] quad_pos = 2 -> a2b_base64(s, pos + 1, 3, v % 4, 0,
                                        Append(out, leftchar * 16 + (v \div 4)))
          [] quad_pos = 3 -> a2b_base64(s, pos + 1, 0, 0, 0,
                                        Append(out, leftchar * 64 + v))

\* base64.b64decode(s) for a str s: s.encode('ascii') raises ValueError on a
\* non-ASCII character, then binascii.a2b_base64 decodes.
b64decode(s) ==
    IF \E n \in 1..Len(s) : s[n] \in NonAscii
    THEN [exc |-> "ValueError", bytes |-> <<>>]
    ELSE a2b_base64(s, 1, 0, 0, 0, <<>>)

(***************************************************************************)
(* hex() and bytes.hex()                                                   *)
(***************************************************************************)
HexDigits == << "0","1","2","3","4","5","6","7","8","9","a","b","c","d","e","f" >>

\* hex(n) for 0 <= n <= 255
hex(n) ==
    IF n < 16 THEN << "0", "x", HexDigits[n + 1] >>
    ELSE << "0", "x", HexDigits[(n \div 16) + 1], HexDigits[(n % 16) + 1] >>

RECURSIVE bytes_hex(_)
bytes_hex(b) ==
    IF Len(b) = 0 THEN <<>>
    ELSE << HexDigits[(b[1] \div 16) + 1], HexDigits[(b[1] % 16) + 1] >>
         \o bytes_hex(SubSeq(b, 2, Len(b)))

(***************************************************************************)
(* decode_build_link                                                       *)
(***************************************************************************)
startswith(s, p) == Len(s) >= Len(p) /\ SubSeq(s, 1, Len(p)) = p
endswith(s, p) == Len(s) >= Len(p) /\ SubSeq(s, Len(s) - Len(p) + 1, Len(s)) = p

\* The marker check with its endswith("]") half left out.
HasMarkers_StartOnly(s) == startswith(s, << "[", "&" >>)

\* line 59: the link carries both markers
HasMarkers(s) == startswith(s, << "[", "&" >>) /\ endswith(s, << "]" >>)

\* line 65: link_string[2:-1]
StripMarkers(s) == SubSeq(s, 3, Len(s) - 1)

\* The byte parsing with the profession read one byte early.
ParseBytes_ProfessionAtVersion(b) ==
    IF Len(b) < 3 THEN None
    ELSE [ link_type |-> hex(b[1]),
           version |-> b[2],
           profession_id_simplified |-> b[2],
           raw_bytes_hex |-> bytes_hex(b) ]

\* lines 85-111: the byte parsing; None on IndexError
ParseBytes(b) ==
    IF Len(b) < 3 THEN None
    ELSE [ link_type |-> hex(b[1]),
           version |-> b[2],
           profession_id_simplified |-> b[3],
           raw_bytes_hex |-> bytes_hex(b) ]

DecodeCheckMarkers ==
    /\ dpc = "check"
    /\ IF ~HasMarkers(link_string)
       THEN /\ dpc' = "done"
            /\ outcome' = "BadEnvelope"
            /\ decoded_info' = None
       ELSE /\ dpc' = "b64"
            /\ UNCHANGED <<outcome, decoded_info>>
    /\ UNCHANGED <<origin, typed_text, raw_bytes, build_data, link_string,
                   base64_part, decoded_bytes, attempted>>
    /\ UNCHANGED <<store_vars, cli_vars>>

DecodeBase64 ==
    /\ dpc = "b64"
    /\ base64_part' = StripMarkers(link_string)
    /\ attempted' = attempted \cup {"b64decode"}
    /\ LET r == b64decode(StripMarkers(link_string)) IN
       CASE r.exc = "binascii.Error" ->
              /\ dpc' = "done"
              /\ outcome' = "BadEncoding"
              /\ decoded_info' = None
              /\ UNCHANGED decoded_bytes
         [] r.exc = "ValueError" ->
              \* not caught by "except base64.binascii.Error": the call raises
              /\ dpc' = "done"
              /\ outcome' = "Raised"
              /\ UNCHANGED <<decoded_info, decoded_bytes>>
         [] r.exc = "none" ->
              /\ decoded_bytes' = r.bytes
              /\ dpc' = "parse"
              /\ UNCHANGED <<outcome, decoded_info>>
    /\ UNCHANGED <<origin, typed_text, raw_bytes, build_data, link_string>>
    /\ UNCHANGED <<store_vars, cli_vars>>

DecodeParse ==
    /\ dpc = "parse"
    /\ dpc' = "done"
    /\ IF Len(decoded_bytes) = 0
       THEN /\ outcome' = "Empty"
            /\ decoded_info' = None
            /\ UNCHANGED attempted
       ELSE /\ attempted' = attempted \cup {"parse"}
            /\ decoded_info' = ParseBytes(decoded_bytes)
            /\ outcome' = IF ParseBytes(decoded_bytes) = None THEN "TooShort" ELSE "Decoded"
    /\ UNCHANGED <<origin, typed_text, raw_bytes, build_data, link_string,
                   base64_part, decoded_bytes>>
    /\ UNCHANGED <<store_vars, cli_vars>>

(***************************************************************************)
(* encode_build_link                                                       *)
(***************************************************************************)
\* line 156
dummy_binary_data == << 10, 1, 2, 1, 2, 3, 4, 5, 6, 7, 8, 9, 10, 11, 12 >>

\* lines 157-158: base64, then the wrapping f"[{encoded_string}]"
encode_envelope(b) == << "[" >> \o b64encode(b) \o << "]" >>

\* lines 114-158: the build is not read
encode_build_link(a_build) == encode_envelope(dummy_binary_data)

(***************************************************************************)
(* Builds, as create_new_build_cli makes them (a dict is a function from   *)
(* its keys), and the inputs of the codec.                                 *)
(***************************************************************************)
MkBuild(profession, specializations, heal) ==
    [ profession |-> [name |-> profession, id |-> profession],
      specializations |-> specializations,
      skills |-> [heal |-> heal, utility1 |-> "", utility2 |-> "",
                  utility3 |-> "", elite |-> ""],
      equipment |-> <<>> ]

SampleSlot(id, traits) == [name |-> "Radiance", id |-> id, traits |-> traits]

SampleBuilds ==
    { MkBuild(p, s, h) :
        p \in {"Guardian", "Warrior"},
        s \in { <<>>,
                << SampleSlot(16, <<>>) >>,
                << SampleSlot(16, << [name |-> "Inner Fire", id |-> 566] >>) >>,
                << SampleSlot(16, <<>>), SampleSlot(42, <<>>), SampleSlot(27, <<>>) >> },
        h \in {"", "Shelter"} }

ByteSeqs == SeqsUpTo(ByteVals, MaxBytes)

\* Byte sequences one short of, and exactly of, the length of the build-link
\* layout (1 tag, 1 profession, 3 x 2 specialization, 10 x 2 skill bytes).
BuildLinkLen == 1 + 1 + 3 * 2 + 10 * 2

LongByteSeqs ==
    { [m \in 1..n |-> IF m = 1 THEN t ELSE IF m = 2 THEN v ELSE IF m = 3 THEN p ELSE 0] :
        n \in {BuildLinkLen - 1, BuildLinkLen}, t \in {10, 13}, v \in {1, 6}, p \in {2, 6} }

Wrap(payload) == << "[", "&" >> \o payload \o << "]" >>

TypedTexts ==
    {Wrap(b64encode(b)) : b \in ByteSeqs \cup LongByteSeqs}
    \cup SeqsUpTo(TextChars, MaxTextLen)
    \cup {Wrap(p) : p \in SeqsUpTo(PayloadChars, MaxPayloadLen)}

(***************************************************************************)
(* The codec's specification: one link, made by the encoder or typed at    *)
(* menu choice 3, goes through decode_build_link.                          *)
(***************************************************************************)
CodecIdle ==
    /\ link_string = <<>>
    /\ dpc = "idle"
    /\ base64_part = <<>>
    /\ decoded_bytes = <<>>
    /\ decoded_info = None
    /\ outcome = "pending"
    /\ attempted = {}

CodecInit ==
    /\ CodecIdle
    /\ \/ origin = "typed" /\ typed_text \in TypedTexts
          /\ raw_bytes = <<>> /\ build_data = None
       \/ origin = "envelope" /\ raw_bytes \in ByteSeqs \cup LongByteSeqs
          /\ typed_text = <<>> /\ build_data = None
       \/ origin = "build" /\ build_data \in SampleBuilds
          /\ typed_text = <<>> /\ raw_bytes = <<>>

\* main_menu, choice 3: the typed text is handed to decode_build_link
InputLink ==
    /\ dpc = "idle" /\ origin = "typed"
    /\ link_string' = typed_text
    /\ dpc' = "check"
    /\ UNCHANGED <<origin, typed_text, raw_bytes, build_data, base64_part,
                   decoded_bytes, decoded_info, outcome, attempted>>
    /\ UNCHANGED <<store_vars, cli_vars>>

\* the encoder's envelope step on raw_bytes, its text handed to the decoder
EncodeEnvelope ==
    /\ dpc = "idle" /\ origin = "envelope"
    /\ link_string' = encode_envelope(raw_bytes)
    /\ dpc' = "check"
    /\ UNCHANGED <<origin, typed_text, raw_bytes, build_data, base64_part,
                   decoded_bytes, decoded_info, outcome, attempted>>
    /\ UNCHANGED <<store_vars, cli_vars>>

\* encode_build_link on build_data, its link handed to the decoder
EncodeBuild ==
    /\ dpc = "idle" /\ origin = "build"
    /\ link_string' = encode_build_link(build_data)
    /\ dpc' = "check"
    /\ UNCHANGED <<origin, typed_text, raw_bytes, build_data, base64_part,
                   decoded_bytes, decoded_info, outcome, attempted>>
    /\ UNCHANGED <<store_vars, cli_vars>>

CodecNext ==
    \/ InputLink
    \/ EncodeEnvelope
    \/ EncodeBuild
    \/ DecodeCheckMarkers
    \/ DecodeBase64
    \/ DecodeParse

(***************************************************************************)
(* Python values and JSON documents.  json.dump writes a dict as an        *)
(* object, a list or a tuple as an array, a str as a string and an int as  *)
(* a number; json.load reads an object as a dict, an array as a list.      *)
(***************************************************************************)
PyStr(x) == [t |-> "str", v |-> x]
PyInt(n) == [t |-> "int", v |-> n]
PyList(xs) == [t |-> "list", v |-> xs]
PyDict(items) == [t |-> "dict", v |-> items]   \* items: a sequence of <<key, value>>

RECURSIVE json_dump(_)
json_dump(x) ==
    CASE x.t = "str" -> [j |-> "string", v |-> x.v]
      [] x.t = "int" -> [j |-> "number", v |-> x.v]
      [] x.t \in {"list", "tuple"} ->
            [j |-> "array", v |-> [n \in DOMAIN x.v |-> json_dump(x.v[n])]]
      [] x.t = "dict" ->
            [j |-> "object",
             v |-> [n \in DOMAIN x.v |-> << x.v[n][1], json_dump(x.v[n][2]) >>]]

RECURSIVE json_load(_)
json_load(d) ==
    CASE d.j = "string" -> PyStr(d.v)
      [] d.j = "number" -> PyInt(d.v)
      [] d.j = "array" -> PyList([n \in DOMAIN d.v |-> json_load(d.v[n])])
      [] d.j = "object" ->
            PyDict([n \in DOMAIN d.v |-> << d.v[n][1], json_load(d.v[n][2]) >>])

\* What a file holds when the write was cut short by an I/O error: a proper
\* prefix of a JSON object, which json.load rejects (JSONDecodeError).
Truncated == [j |-> "truncated", v |-> <<>>]

\* The build dict of create_new_build_cli as a Python value, keys in the
\* order the code inserts them.
NamedPy(x, id) == PyDict(<< << "name", PyStr(x.name) >>, << "id", id >> >>)

SlotPy(slot) ==
    PyDict(<< << "name", PyStr(slot.name) >>,
              << "id", PyInt(slot.id) >>,
              << "traits", PyList([n \in DOMAIN slot.traits |->
                                      NamedPy(slot.traits[n], PyInt(slot.traits[n].id))]) >> >>)

BuildPy(b) ==
    PyDict(<< << "profession", NamedPy(b.profession, PyStr(b.profession.id)) >>,
              << "specializations",
                 PyList([n \in DOMAIN b.specializations |-> SlotPy(b.specializations[n])]) >>,
              << "skills",
                 PyDict(<< << "heal", PyStr(b.skills.heal) >>,
                           << "utility1", PyStr(b.skills.utility1) >>,
                           << "utility2", PyStr(b.skills.utility2) >>,
                           << "utility3", PyStr(b.skills.utility3) >>,
                           << "elite", PyStr(b.skills.elite) >> >>) >>,
              << "equipment", PyDict(<<>>) >> >>)

(***************************************************************************)
(* Paths.  A path is a sequence of characters; the file system resolves it *)
(* component by component from the working directory, or from the root     *)
(* when it starts with "/".  A resolved location is the sequence of        *)
(* components from the root.                                               *)
(***************************************************************************)
\* line 11
BUILDS_DIR == << "s","a","v","e","d","_","b","u","i","l","d","s" >>

DotJson == << ".", "j", "s", "o", "n" >>

\* os.path.join(a, b)
os_path_join(a, b) ==
    IF startswith(b, << "/" >>) THEN b ELSE a \o << "/" >> \o b

\* lines 171 and 188
filepath(build_name) == os_path_join(BUILDS_DIR, build_name \o DotJson)

\* path.split("/")
RECURSIVE SplitPath(_, _, _)
SplitPath(path, n, cur) ==
    IF n > Len(path) THEN << cur >>
    ELSE IF path[n] = "/" THEN << cur >> \o SplitPath(path, n + 1, <<>>)
    ELSE SplitPath(path, n + 1, Append(cur, path[n]))

Root == <<>>
WorkDir == << << "w", "o", "r", "k" >> >>
BuildsPath == Append(WorkDir, BUILDS_DIR)

\* The directories that exist: BUILDS_DIR is made by
\* ensure_builds_directory_exists before any path is opened.
ExistingDirs == {Root, WorkDir, BuildsPath}

Parent(dir) == IF dir = Root THEN Root ELSE SubSeq(dir, 1, Len(dir) - 1)

\* The directory reached from dir through comps[n..]; ok is FALSE when a
\* component names no existing directory (ENOENT).
RECURSIVE WalkDirs(_, _, _)
WalkDirs(dir, comps, n) ==
    IF n > Len(comps) THEN [ok |-> TRUE, dir |-> dir]
    ELSE IF comps[n] = <<>> \/ comps[n] = << "." >> THEN WalkDirs(dir, comps, n + 1)
    ELSE IF comps[n] = << ".", "." >> THEN WalkDirs(Parent(dir), comps, n + 1)
    ELSE IF Append(dir, comps[n]) \in ExistingDirs
         THEN WalkDirs(Append(dir, comps[n]), comps, n + 1)
         ELSE [ok |-> FALSE, dir |-> dir]

\* The file a path names: its directory resolved, then its last component.
ResolveFile(path) ==
    LET comps == SplitPath(path, 1, <<>>)
        start == IF startswith(path, << "/" >>) THEN Root ELSE WorkDir
        w == WalkDirs(start, SubSeq(comps, 1, Len(comps) - 1), 1)
    IN  [ok |-> w.ok, file |-> Append(w.dir, comps[Len(comps)])]

(***************************************************************************)
(* save_build and load_build                                               *)
(***************************************************************************)
FileExists(f) == f \in DOMAIN files

\* lines 170-177: the files after save_build(build_name, data).
\* open(filepath, 'w') fails when the directory is missing and otherwise
\* empties the file; written says whether json.dump then ran to its end.
save_build(build_name, data, written) ==
    LET r == ResolveFile(filepath(build_name)) IN
    IF ~r.ok THEN files
    ELSE (r.file :> (IF written THEN json_dump(data) ELSE Truncated)) @@ files

\* save_build completed without an I/O error
SavedWithoutError(build_name, written) ==
    ResolveFile(filepath(build_name)).ok /\ written

\* lines 188-202: no file, or a file json.load rejects, gives None (a file
\* that exists is taken to be readable)
load_build(build_name) ==
    LET r == ResolveFile(filepath(build_name)) IN
    IF ~r.ok \/ ~FileExists(r.file) THEN None
    ELSE IF files[r.file] = Truncated THEN None
    ELSE json_load(files[r.file])

\* The names typed for a build: "a", "b", "./a", "a/b".
NameInputs ==
    { << "a" >>, << "b" >>, << ".", "/", "a" >>, << "a", "/", "b" >> }

StoreData ==
    { BuildPy(MkBuild("Guardian", <<>>, "")),
      BuildPy(MkBuild("Guardian",
                      << SampleSlot(16, << [name |-> "Inner Fire", id |-> 566] >>) >>,
                      "Shelter")) }

StoreIdle ==
    /\ files = <<>>
    /\ spc = "none"
    /\ load_name = <<>>
    /\ load_result = None
    /\ ever_saved = {}
    /\ last_ok = [n \in NameInputs |-> None]

\* create_new_build_cli, lines 371-373: a build is saved under a typed name
SaveBuildOp ==
    /\ \E build_name \in NameInputs, data \in StoreData, written \in BOOLEAN :
          /\ files' = save_build(build_name, data, written)
          /\ ever_saved' = ever_saved \cup {build_name}
          /\ last_ok' = [last_ok EXCEPT ![build_name] =
                            IF SavedWithoutError(build_name, written)
                            THEN data ELSE None]
    /\ spc' = "saved"
    /\ UNCHANGED <<load_name, load_result>>
    /\ UNCHANGED <<codec_vars, cli_vars>>

\* main_menu, choice 2, lines 401-405: a typed name is loaded
LoadBuildOp ==
    /\ \E build_name \in NameInputs :
          /\ load_name' = build_name
          /\ load_result' = load_build(build_name)
    /\ spc' = "loaded"
    /\ UNCHANGED <<files, ever_saved, last_ok>>
    /\ UNCHANGED <<codec_vars, cli_vars>>

StoreNext == SaveBuildOp \/ LoadBuildOp

(***************************************************************************)
(* The catalog behind fetch_api_data, and what the user types.             *)
(***************************************************************************)
MaxChoice == 3       \* the largest number typed at a numbered menu

\* fetch_api_data returns the parsed response, or None on a request error
Fetched(data) == [ok |-> TRUE, data |-> data]
FetchFailed == [ok |-> FALSE, data |-> {}]

ProfessionCatalog ==
    { [id |-> "Guardian", name |-> "Guardian"],
      [id |-> "Revenant", name |-> "Revenant"],
      [id |-> "Warrior", name |-> "Warrior"] }

SpecCatalog ==
    { [id |-> 16, name |-> "Radiance", profession |-> "Guardian", major_traits |-> {566, 574}],
      [id |-> 42, name |-> "Zeal", profession |-> "Guardian", major_traits |-> {563}],
      [id |-> 4, name |-> "Arms", profession |-> "Warrior", major_traits |-> {}] }

TraitCatalog ==
    { [id |-> 566, name |-> "Inner Fire", tier |-> 0],
      [id |-> 574, name |-> "Radiant Fire", tier |-> 1],
      [id |-> 563, name |-> "Fiery Wrath", tier |-> 0] }

\* The catalog's names in the order Python compares strings.
NameOrder ==
    << "Arms", "Fiery Wrath", "Guardian", "Inner Fire", "Radiance",
       "Radiant Fire", "Revenant", "Warrior", "Zeal" >>

NameRank(name) == CHOOSE n \in 1..Len(NameOrder) : NameOrder[n] = name

\* sorted(S, key=lambda x: x['name'])
RECURSIVE SortedByName(_)
SortedByName(S) ==
    IF S = {} THEN <<>>
    ELSE LET first == CHOOSE x \in S : \A y \in S : NameRank(x.name) <= NameRank(y.name)
         IN  << first >> \o SortedByName(S \ {first})

\* What is typed at a prompt: a number, the letter s, or something else.
Typed(kind, n) == [kind |-> kind, n |-> n]
ChoiceInputs == {Typed("int", n) : n \in 0..MaxChoice} \cup {Typed("s", 0), Typed("other", 0)}

\* seq[int(typed) - 1] does not raise: int() parses, and the index is one
\* Python accepts (a negative index counts from the end)
ValidChoice(seq, typed) ==
    /\ typed.kind = "int"
    /\ -Len(seq) <= typed.n - 1
    /\ typed.n - 1 < Len(seq)

Chosen(seq, typed) ==
    IF typed.n - 1 >= 0 THEN seq[typed.n] ELSE seq[Len(seq) + typed.n]

SkillSlots == {"heal", "utility1", "utility2", "utility3", "elite"}
SkillInputs == {"", "Shelter"}

(***************************************************************************)
(* create_new_build_cli                                                    *)
(***************************************************************************)
Unbound == [bound |-> FALSE, v |-> <<>>]
Bound(xs) == [bound |-> TRUE, v |-> xs]

CliIdle ==
    /\ cpc = "menu"
    /\ build = <<>>
    /\ chosen_profession_name = ""
    /\ i = 0
    /\ available_specs = {}
    /\ chosen_spec = None
    /\ all_traits = {}
    /\ selected_major_traits = Unbound
    /\ k = 0
    /\ picked = <<>>
    /\ last_append = None
    /\ skipped = FALSE
    /\ save_arg = None
    /\ encode_arg = None
    /\ encoded_link = <<>>

\* The specialization loop running once more than range(3).
SpecLoopPc_OneMore(n) == IF n <= 3 THEN "spec_fetch" ELSE "skills"

\* line 254: for i in range(3)
SpecLoopPc(n) == IF n < 3 THEN "spec_fetch" ELSE "skills"

\* line 305: for k in range(3)
TraitLoopPc(n) == IF n < 3 THEN "traits" ELSE "append"

\* lines 224-235: the professions are fetched
CliStart ==
    /\ cpc = "menu"
    /\ \E professions \in {FetchFailed, Fetched(ProfessionCatalog)} :
          cpc' = IF professions.ok THEN "prof_prompt" ELSE "returned"
    /\ UNCHANGED <<build, chosen_profession_name, i, available_specs, chosen_spec,
                   all_traits, selected_major_traits, k, picked, last_append,
                   skipped, save_arg, encode_arg, encoded_link>>
    /\ UNCHANGED <<codec_vars, store_vars>>

\* lines 237-254: a profession is typed; an invalid input asks again
ChooseProfession ==
    /\ cpc = "prof_prompt"
    /\ \E choice \in ChoiceInputs :
          LET professions == SortedByName(ProfessionCatalog) IN
          IF ValidChoice(professions, choice)
          THEN /\ chosen_profession_name' = Chosen(professions, choice).name
               /\ build' = [ profession |-> [name |-> Chosen(professions, choice).name,
                                             id |-> Chosen(professions, choice).id],
                             specializations |-> <<>> ]
               /\ i' = 0
               /\ cpc' = SpecLoopPc(0)
          ELSE UNCHANGED <<chosen_profession_name, build, i, cpc>>
    /\ UNCHANGED <<available_specs, chosen_spec, all_traits, selected_major_traits,
                   k, picked, last_append, skipped, save_arg, encode_arg, encoded_link>>
    /\ UNCHANGED <<codec_vars, store_vars>>

\* lines 257-277: the specializations are fetched and filtered; nothing to
\* offer leaves the loop
FetchSpecs ==
    /\ cpc = "spec_fetch"
    /\ \E all_specs \in {FetchFailed, Fetched({}), Fetched(SpecCatalog)} :
          LET available == { s \in all_specs.data :
                               s.profession = chosen_profession_name \/ s.profession = "" }
          IN  IF ~all_specs.ok \/ all_specs.data = {} \/ available = {}
              THEN /\ cpc' = "skills"
                   /\ skipped' = TRUE
                   /\ UNCHANGED available_specs
              ELSE /\ cpc' = "spec_prompt"
                   /\ available_specs' = available
                   /\ UNCHANGED skipped
    /\ UNCHANGED <<build, chosen_profession_name, i, chosen_spec, all_traits,
                   selected_major_traits, k, picked, last_append, save_arg,
                   encode_arg, encoded_link>>
    /\ UNCHANGED <<codec_vars, store_vars>>

\* lines 279-304: a specialization is typed (an invalid input asks again),
\* chosen_traits is emptied, and its major traits are fetched; only a
\* non-empty answer binds selected_major_traits
ChooseSpec ==
    /\ cpc = "spec_prompt"
    /\ \E choice \in ChoiceInputs, fetched \in BOOLEAN :
          LET specs == SortedByName(available_specs) IN
          IF ValidChoice(specs, choice)
          THEN LET spec == Chosen(specs, choice)
                   traits == IF fetched
                             THEN {t \in TraitCatalog : t.id \in spec.major_traits}
                             ELSE {}
               IN  /\ chosen_spec' = spec
                   /\ picked' = <<>>
                   /\ all_traits' = traits
                   /\ IF traits = {}
                      THEN /\ cpc' = "append"
                           /\ UNCHANGED <<selected_major_traits, k>>
                      ELSE /\ selected_major_traits' = Bound(<<>>)
                           /\ k' = 0
                           /\ cpc' = TraitLoopPc(0)
          ELSE UNCHANGED <<chosen_spec, picked, all_traits, selected_major_traits, k, cpc>>
    /\ UNCHANGED <<build, chosen_profession_name, i, available_specs, last_append,
                   skipped, save_arg, encode_arg, encoded_link>>
    /\ UNCHANGED <<codec_vars, store_vars>>

\* lines 313-316
current_tier_traits ==
    { t \in all_traits :
        /\ t.tier = k
        /\ t.id \notin {selected_major_traits.v[n].id : n \in DOMAIN selected_major_traits.v} }

\* lines 305-339: one round of the trait loop
TraitTier ==
    /\ cpc = "traits"
    /\ IF current_tier_traits = {}
       THEN /\ k' = k + 1
            /\ cpc' = TraitLoopPc(k + 1)
            /\ UNCHANGED <<selected_major_traits, picked>>
       ELSE \E trait_input \in ChoiceInputs :
              LET traits == SortedByName(current_tier_traits) IN
              IF trait_input.kind = "s"
              THEN /\ cpc' = "append"
                   /\ UNCHANGED <<k, selected_major_traits, picked>>
              ELSE /\ k' = k + 1
                   /\ cpc' = TraitLoopPc(k + 1)
                   /\ IF ValidChoice(traits, trait_input)
                      THEN LET trait == [name |-> Chosen(traits, trait_input).name,
                                         id |-> Chosen(traits, trait_input).id]
                           IN  /\ selected_major_traits' =
                                      Bound(Append(selected_major_traits.v, trait))
                               /\ picked' = Append(picked, trait)
                      ELSE UNCHANGED <<selected_major_traits, picked>>
    /\ UNCHANGED <<build, chosen_profession_name, i, available_specs, chosen_spec,
                   all_traits, last_append, skipped, save_arg, encode_arg, encoded_link>>
    /\ UNCHANGED <<codec_vars, store_vars>>

\* lines 341-346: the entry is appended; reading an unbound
\* selected_major_traits raises UnboundLocalError, which the handler of
\* (ValueError, IndexError) does not catch
AppendSpec ==
    /\ cpc = "append"
    /\ IF ~selected_major_traits.bound
       THEN /\ cpc' = "raised"
            /\ UNCHANGED <<build, i, last_append>>
       ELSE /\ build' = [build EXCEPT !.specializations =
                            Append(@, [ name |-> chosen_spec.name,
                                        id |-> chosen_spec.id,
                                        traits |-> selected_major_traits.v ])]
            /\ last_append' = [traits |-> selected_major_traits.v, picked |-> picked]
            /\ i' = i + 1
            /\ cpc' = SpecLoopPc(i + 1)
    /\ UNCHANGED <<chosen_profession_name, available_specs, chosen_spec, all_traits,
                   selected_major_traits, k, picked, skipped, save_arg, encode_arg,
                   encoded_link>>
    /\ UNCHANGED <<codec_vars, store_vars>>

\* lines 351-369: the five skills are typed, the equipment is left empty
EnterSkills ==
    /\ cpc = "skills"
    /\ \E skills \in [SkillSlots -> SkillInputs] :
          build' = [ profession |-> build.profession,
                     specializations |-> build.specializations,
                     skills |-> skills,
                     equipment |-> <<>> ]
    /\ cpc' = "name"
    /\ UNCHANGED <<chosen_profession_name, i, available_specs, chosen_spec, all_traits,
                   selected_major_traits, k, picked, last_append, skipped, save_arg,
                   encode_arg, encoded_link>>
    /\ UNCHANGED <<codec_vars, store_vars>>

\* lines 371-373: a name is typed; a non-empty one saves the build
NameAndSave ==
    /\ cpc = "name"
    /\ \E build_name \in NameInputs \cup {<<>>}, written \in BOOLEAN :
          IF build_name = <<>>
          THEN UNCHANGED <<save_arg, files, ever_saved, last_ok, spc>>
          ELSE /\ save_arg' = build
               /\ files' = save_build(build_name, BuildPy(build), written)
               /\ ever_saved' = ever_saved \cup {build_name}
               /\ last_ok' = [last_ok EXCEPT ![build_name] =
                                 IF SavedWithoutError(build_name, written)
                                 THEN BuildPy(build) ELSE None]
               /\ spc' = "saved"
    /\ cpc' = "encode"
    /\ UNCHANGED <<build, chosen_profession_name, i, available_specs, chosen_spec,
                   all_traits, selected_major_traits, k, picked, last_append, skipped,
                   encode_arg, encoded_link>>
    /\ UNCHANGED <<load_name, load_result>>
    /\ UNCHANGED codec_vars

\* lines 376-379: the build is encoded
EncodeCreated ==
    /\ cpc = "encode"
    /\ encode_arg' = build
    /\ encoded_link' = encode_build_link(build)
    /\ cpc' = "returned"
    /\ UNCHANGED <<build, chosen_profession_name, i, available_specs, chosen_spec,
                   all_traits, selected_major_traits, k, picked, last_append, skipped,
                   save_arg>>
    /\ UNCHANGED <<codec_vars, store_vars>>

CliNext ==
    \/ CliStart
    \/ ChooseProfession
    \/ FetchSpecs
    \/ ChooseSpec
    \/ TraitTier
    \/ AppendSpec
    \/ EnterSkills
    \/ NameAndSave
    \/ EncodeCreated

(***************************************************************************)
(* Specifications                                                          *)
(***************************************************************************)
\* The codec on one link.
InitCodec == CodecInit /\ StoreIdle /\ CliIdle

SpecCodec == InitCodec /\ [][CodecNext]_vars

\* The store under any sequence of saves and loads.
CodecUnused ==
    /\ CodecIdle
    /\ origin = "typed" /\ typed_text = <<>> /\ raw_bytes = <<>> /\ build_data = None

InitIdle == CodecUnused /\ StoreIdle /\ CliIdle

SpecStore == InitIdle /\ [][StoreNext]_vars

\* One run of create_new_build_cli on an empty store.
SpecCli == InitIdle /\ [][CliNext]_vars

(***************************************************************************)
(* Properties                                                              *)
(***************************************************************************)
EnvelopeDone == dpc \in {"parse", "done"}

\* C1: for every byte sequence b, the text the encoder's envelope step emits
\* for b passes the decoder's marker check and base64 decode and yields
\* exactly b again.
C1_EnvelopeRoundTrip ==
    (origin = "envelope" /\ EnvelopeDone) =>
        /\ "b64decode" \in attempted
        /\ outcome \notin {"BadEnvelope", "BadEncoding", "Raised"}
        /\ decoded_bytes = raw_bytes

\* C2: for every build t, decoding the link encode_build_link makes of t
\* returns t (so two different builds never share a link).
C2_TemplateRoundTrip ==
    (origin = "build" /\ dpc = "done") => decoded_info = build_data

\* A text without the leading "[&" or without the closing "]".
LacksMarker(s) ==
    \/ Len(s) < 2
    \/ s[1] # "["
    \/ s[2] # "&"
    \/ s[Len(s)] # "]"

\* C3: a text that does not start with "[&" or does not end with "]" is
\* never decoded: decode_build_link returns None for it, and neither the
\* base64 decoding nor the byte parsing is attempted on it.
C3_NoMarkerNoDecode ==
    (dpc # "idle" /\ LacksMarker(link_string)) =>
        /\ dpc \in {"check", "done"}
        /\ attempted = {}
        /\ decoded_bytes = <<>>
        /\ decoded_info = None
        /\ dpc = "done" => outcome = "BadEnvelope"

\* C3's case: a text with the leading marker and no closing one was refused.
C3_Witness ==
    /\ dpc = "done"
    /\ outcome = "BadEnvelope"
    /\ Len(link_string) > 2
    /\ link_string[1] = "[" /\ link_string[2] = "&"
    /\ link_string[Len(link_string)] # "]"

\* Standard base64 with padding: whole quads of alphabet characters, the
\* last quad ending in at most two "=".
ValidBase64(p) ==
    /\ Len(p) % 4 = 0
    /\ \E pad \in 0..2 :
          /\ pad <= Len(p)
          /\ \A n \in 1..(Len(p) - pad) : p[n] \in B64Chars
          /\ \A n \in (Len(p) - pad + 1)..Len(p) : p[n] = "="

\* C4: a correctly bracketed text whose payload is not valid standard
\* base64 is refused, whatever its other characters are: no build is
\* returned for it.  (The claim also names the exit taken, the bad-encoding
\* one; the formula states what the caller sees, that no build comes back.)
C4_InvalidBase64Refused ==
    ( /\ dpc = "done"
      /\ ~LacksMarker(link_string)
      /\ ~ValidBase64(SubSeq(link_string, 3, Len(link_string) - 1)) )
    => (outcome # "Decoded" /\ decoded_info = None)

\* The tags of a build link: 0x0A in the code's comments and dummy data,
\* 0x0D in the sample link of the docstrings ("[&DQYAAAA...=]").
BuildLinkTags == {10, 13}

\* C5: a decoded byte sequence that carries the build-link tag and is
\* shorter than the 28 bytes of the build-link layout is refused as
\* truncated, and no build is returned for it.
C5_ShortBuildLinkRefused ==
    ( /\ dpc = "done"
      /\ Len(decoded_bytes) >= 1
      /\ Len(decoded_bytes) < BuildLinkLen
      /\ decoded_bytes[1] \in BuildLinkTags )
    => (outcome = "TooShort" /\ decoded_info = None)

\* A tag that is no link type: 0xFF, the tag of the link "[&/w==]".
UnknownTags == {255}

\* C6: a decoded byte sequence whose first byte is not the tag of a known
\* link type is refused, and no build is returned for it.
C6_UnknownTagRefused ==
    ( /\ dpc = "done"
      /\ Len(decoded_bytes) >= 1
      /\ decoded_bytes[1] \in UnknownTags )
    => decoded_info = None

Handed == {b \in {save_arg, encode_arg} : b # None}

\* C8 as claimed: every build handed to save_build or encode_build_link
\* holds exactly 3 specialization entries.
C8_ExactlyThreeSlots ==
    \A b \in Handed : Len(b.specializations) = 3

\* C8 as amended: every build handed to save_build or encode_build_link
\* holds at most 3 specialization entries, and exactly 3 unless the
\* specialization loop was left early because a fetch offered nothing.
C8_AtMostThreeSlots ==
    \A b \in Handed :
        /\ Len(b.specializations) <= 3
        /\ ~skipped => Len(b.specializations) = 3

\* C8's case: a build of three chosen specializations was saved and encoded.
C8_Witness ==
    /\ save_arg # None
    /\ encode_arg # None
    /\ ~skipped
    /\ Len(encode_arg.specializations) = 3

\* C9: appending a specialization entry never fails for lack of a traits
\* value, and the entry's traits are all traits the user selected while
\* choosing that same specialization.
C9_TraitsOfThisSpecialization ==
    /\ cpc # "raised"
    /\ last_append # None =>
          \A n \in DOMAIN last_append.traits :
              \E m \in DOMAIN last_append.picked :
                  last_append.picked[m] = last_append.traits[n]

\* C10: after a save_build under a name completed without an I/O error,
\* load_build of that name returns the saved data until the next save_build
\* under that name, whatever is saved under other names; load_build of a
\* name never saved returns None.  (load_build leaves the store unchanged.)
C10_StoreRoundTrip ==
    spc = "loaded" =>
        /\ last_ok[load_name] # None => load_result = last_ok[load_name]
        /\ load_name \notin ever_saved => load_result = None

====
